---------------------------- MODULE Spec2Model ----------------------------
(***************************************************************************)
(* The load-validate-link pipeline of Deserethon.                          *)
(*                                                                         *)
(* Two classes implement it: CharacterManager.load_and_link_characters     *)
(* (game_engine/character_manager.py) and                                  *)
(* GameState.load_all_characters_from_files (game_engine/game_state.py).   *)
(* Both build Character objects with Character.load_from_yaml_file         *)
(* (game_engine/character.py).                                             *)
(*                                                                         *)
(* A batch is the list of YAML files that glob returned, each file given   *)
(* by what opening and parsing it gives.  A Character object is named by   *)
(* the position of its file in the batch (its identity); 0 is Python's     *)
(* None for an object reference.  A dict is a sequence of <<key, value>>   *)
(* entries in insertion order, as Python's dict keeps them.                *)
(***************************************************************************)
EXTENDS Naturals, Sequences, FiniteSets, TLC

\* ------------------------------------------------------------------ bounds
\* Most files of one batch (Spec).
MaxFiles == 3
\* Most files of one batch over every subset of the required fields
\* (SpecFields).
MaxFieldFiles == 2
\* Most files of one batch whose records carry relationship data (SpecLink).
MaxLinkFiles == 2
\* Most files of one batch when the loader is used again (SpecReload).
MaxReloadFiles == 2
\* Most times a caller adds the same message to GameState's log with add_log.
MaxAddLog == 1

\* ------------------------------------------------------------ Python values
\* None where a string is expected (player_character_id, spouse_id).
None == "<None>"
\* None where an object reference is expected.
NoObj == 0

\* Python truthiness of an optional string: None and "" are falsy.
TruthyStr(s) == s # None /\ s # ""

\* ------------------------------------------------------------------- dicts
DictKeys(d) == {d[i][1] : i \in 1..Len(d)}
DictHas(d, k) == k \in DictKeys(d)
\* d.get(k): the value stored under k, or None
DictGet(d, k) ==
    IF DictHas(d, k)
    THEN d[CHOOSE i \in 1..Len(d) : d[i][1] = k][2]
    ELSE NoObj
\* d[k] = v: replaces the value of an existing key in place, else appends
DictSet(d, k, v) ==
    IF DictHas(d, k)
    THEN [i \in 1..Len(d) |-> IF d[i][1] = k THEN <<k, v>> ELSE d[i]]
    ELSE Append(d, <<k, v>>)

\* ---------------------------------------------------------------- messages
\* One log or error message: the text of its f-string and the values it
\* interpolates (ids, the file's basename as its position, the missing field,
\* a count).  prefix is "ERROR: " on the log copy CharacterManager makes of an
\* error and "" otherwise.
Msg(text, id, id2, file, exc, field, n) ==
    [prefix |-> "", text |-> text, id |-> id, id2 |-> id2,
     file |-> file, exc |-> exc, field |-> field, n |-> n]
Plain(text) == Msg(text, "", "", 0, "", "", 0)
\* A message about character ids.
IdMsg(text, id, id2) == Msg(text, id, id2, 0, "", "", 0)
\* A message that carries a count.
CountMsg(text, n) == Msg(text, "", "", 0, "", "", n)

\* ------------------------------------------------------------ raw records
\* What opening and parsing one file gives.  kind "dict": yaml.safe_load
\* returned a mapping, with keys the required fields it holds; kind "other":
\* it returned anything else (None, a list, a scalar); kind "unparsable": it
\* raised yaml.YAMLError; kind "nofile": open raised FileNotFoundError (a
\* dangling link); kind "isdir": open raised IsADirectoryError.
\* relationships: kind "none" (key absent or null), "map"
\* (a mapping with the four slots) or "bad" (present, not a mapping).
NoRel == [kind |-> "none", spouse_id |-> None, parent_ids |-> <<>>,
          children_ids |-> <<>>, sibling_ids |-> <<>>]
BadRel == [NoRel EXCEPT !.kind = "bad"]
Rel(sp, ps, cs, ss) ==
    [kind |-> "map", spouse_id |-> sp, parent_ids |-> ps,
     children_ids |-> cs, sibling_ids |-> ss]

FieldSet == {"id", "name", "age", "gender", "bio"}

Raw(keys, id, isp, rel) ==
    [kind |-> "dict", keys |-> keys, id |-> id, is_player |-> isp,
     relationships |-> rel]
NotADict == [Raw({}, "", FALSE, NoRel) EXCEPT !.kind = "other"]
Unparsable == [NotADict EXCEPT !.kind = "unparsable"]
NoSuchFile == [NotADict EXCEPT !.kind = "nofile"]
IsADirectory == [NotADict EXCEPT !.kind = "isdir"]
\* A mapping that lacks the required fields in `missing`.
Lacking(missing) == Raw(FieldSet \ missing, "", FALSE, NoRel)
Valid(id, isp, rel) == Raw(FieldSet, id, isp, rel)

\* ---------------------------------------------------------------- Character
\* Character.__init__: the link slots start as None and empty lists;
\* relationships_data is {} when the record gave None.
NullChar ==
    [alive |-> FALSE, id |-> "", is_player |-> FALSE, relationships_data |-> NoRel,
     spouse_obj |-> NoObj, parent_objs |-> <<>>, children_objs |-> <<>>,
     sibling_objs |-> <<>>]
Character(char_id, is_player, relationships_data) ==
    [alive |-> TRUE, id |-> char_id, is_player |-> is_player,
     relationships_data |-> relationships_data,
     spouse_obj |-> NoObj, parent_objs |-> <<>>, children_objs |-> <<>>,
     sibling_objs |-> <<>>]

\* A list of required fields that forgets `bio`.
required_fields_short == <<"id", "name", "age", "gender">>

required_fields == <<"id", "name", "age", "gender", "bio">>

\* The loop `for field in required_fields: if field not in char_data: raise`:
\* the first field of the list, from position i on, that the record lacks
\* ("" when none is missing).
RECURSIVE MissingFrom(_, _)
MissingFrom(keys, i) ==
    IF i > Len(required_fields) THEN ""
    ELSE IF required_fields[i] \notin keys THEN required_fields[i]
    ELSE MissingFrom(keys, i + 1)

FirstMissingField(raw) == MissingFrom(raw.keys, 1)

\* Character.load_from_yaml_file: a Character, or the exception raised.
load_from_yaml_file(raw) ==
    IF raw.kind = "nofile"
    THEN [ok |-> FALSE, exc |-> "FileNotFoundError: No such file or directory",
          field |-> "", char |-> NullChar]
    ELSE IF raw.kind = "isdir"
    THEN [ok |-> FALSE, exc |-> "IsADirectoryError: Is a directory",
          field |-> "", char |-> NullChar]
    ELSE IF raw.kind = "unparsable"
    THEN [ok |-> FALSE, exc |-> "yaml.YAMLError", field |-> "", char |-> NullChar]
    ELSE IF raw.kind # "dict"
    THEN [ok |-> FALSE, exc |-> "not a valid character dictionary", field |-> "",
          char |-> NullChar]
    ELSE IF FirstMissingField(raw) # ""
    THEN [ok |-> FALSE, exc |-> "Missing required field",
          field |-> FirstMissingField(raw), char |-> NullChar]
    ELSE [ok |-> TRUE, exc |-> "", field |-> "",
          char |-> Character(raw.id, raw.is_player, raw.relationships)]

\* --------------------------------------------------------- link resolution
\* The loop over one id list of CharacterManager._link_relationships_internal
\* and GameState._link_character_relationships: the objects of the ids that
\* self.characters.get() finds, in the order of the list.
\* A loop that appends what get() returned without testing it.
LinkObjs_unchecked(characters, ids) ==
    [i \in 1..Len(ids) |-> DictGet(characters, ids[i])]

\* A loop that links an id of the list once, however often the list has it.
RECURSIVE LinkObjs_dedup(_, _)
LinkObjs_dedup(characters, ids) ==
    IF ids = <<>> THEN <<>>
    ELSE LET front == SubSeq(ids, 1, Len(ids) - 1)
             last == ids[Len(ids)]
         IN  LinkObjs_dedup(characters, front)
             \o (IF /\ DictGet(characters, last) # NoObj
                    /\ \A i \in 1..Len(front) : front[i] # last
                 THEN <<DictGet(characters, last)>> ELSE <<>>)

RECURSIVE LinkObjs(_, _)
LinkObjs(characters, ids) ==
    IF ids = <<>> THEN <<>>
    ELSE (IF DictGet(characters, Head(ids)) # NoObj
          THEN <<DictGet(characters, Head(ids))>> ELSE <<>>)
         \o LinkObjs(characters, Tail(ids))

\* The ids of the list that self.characters.get() does not find, in order:
\* one warning is written for each.
RECURSIVE MissingIds(_, _)
MissingIds(characters, ids) ==
    IF ids = <<>> THEN <<>>
    ELSE (IF DictGet(characters, Head(ids)) = NoObj THEN <<Head(ids)>> ELSE <<>>)
         \o MissingIds(characters, Tail(ids))

\* A resolution that forgets the spouse.
LinkSpouse_never(characters, c) == c.spouse_obj

\* `if spouse_id: character.spouse_obj = self.characters.get(spouse_id)`
LinkSpouse(characters, c) ==
    IF TruthyStr(c.relationships_data.spouse_id)
    THEN DictGet(characters, c.relationships_data.spouse_id)
    ELSE c.spouse_obj

\* `if parent_ids: character.parent_objs = []; for p_id in parent_ids: ...`
LinkSlot(characters, ids, old) ==
    IF ids # <<>> THEN LinkObjs(characters, ids) ELSE old

\* A resolution done as each entity is inserted: it sees the registry as it
\* was up to the entity's own entry.
LinkCharacter_sofar(characters, c) ==
    LET known == SubSeq(characters, 1,
                        CHOOSE n \in 1..Len(characters) : characters[n][1] = c.id)
    IN  [c EXCEPT
           !.spouse_obj = LinkSpouse(known, c),
           !.parent_objs = LinkSlot(known, c.relationships_data.parent_ids, @),
           !.children_objs = LinkSlot(known, c.relationships_data.children_ids, @),
           !.sibling_objs = LinkSlot(known, c.relationships_data.sibling_ids, @)]

\* The character with its four link slots filled from self.characters.
LinkCharacter(characters, c) ==
    [c EXCEPT
       !.spouse_obj = LinkSpouse(characters, c),
       !.parent_objs = LinkSlot(characters, c.relationships_data.parent_ids, @),
       !.children_objs = LinkSlot(characters, c.relationships_data.children_ids, @),
       !.sibling_objs = LinkSlot(characters, c.relationships_data.sibling_ids, @)]

\* The warnings linking one character writes, in the order of the code:
\* spouse, parents, children, siblings.  texts names the four f-strings.
LinkWarnings(characters, char_id, c, texts) ==
    LET rd == c.relationships_data
        warn(text, ids) ==
            [i \in 1..Len(MissingIds(characters, ids)) |->
                IdMsg(text, char_id, MissingIds(characters, ids)[i])]
    IN  (IF TruthyStr(rd.spouse_id) /\ DictGet(characters, rd.spouse_id) = NoObj
         THEN <<IdMsg(texts[1], char_id, rd.spouse_id)>> ELSE <<>>)
        \o warn(texts[2], rd.parent_ids)
        \o warn(texts[3], rd.children_ids)
        \o warn(texts[4], rd.sibling_ids)

\* relationships_data.get(...) raises AttributeError when the record's
\* `relationships` value is not a mapping.
LinkRaises(c) == c.relationships_data.kind = "bad"

\* ------------------------------------------------------------------- state
VARIABLES
    impl,                     \* the class whose load runs
    dir_ok,                   \* os.path.isdir(characters_dir_path)
    files,                    \* yaml_files: what each file parses to
    pc,                       \* position of the running load
    ret,                      \* what the load returned ("none" while running)
    heap,                     \* the Character objects built by this load
    characters,               \* self.characters
    player_character_id,      \* self.player_character_id
    loading_log,              \* self.loading_log / GameState.log_messages
    loading_errors,           \* self.loading_errors
    loaded_character_objects, \* local list of CharacterManager's load
    processed_ids,            \* local set of CharacterManager's load
    idx,                      \* position of the running for loop
    loaded_chars_count,       \* local counter of GameState's load
    initial_load_complete,    \* GameState.initial_load_complete
    first                     \* what the first load of this loader handed out

vars == <<impl, dir_ok, files, pc, ret, heap, characters, player_character_id,
          loading_log, loading_errors, loaded_character_objects, processed_ids,
          idx, loaded_chars_count, initial_load_complete, first>>

inputs == <<impl, dir_ok, files>>

\* _add_error_message: the copy of an error that goes to the log.
ErrorLogCopy(m) == [m EXCEPT !.prefix = "ERROR: "]
ErrorLogCopies(ms) == [i \in 1..Len(ms) |-> ErrorLogCopy(ms[i])]

NoHeap(fs) == [i \in 1..Len(fs) |-> NullChar]

\* A reset that leaves the container as the last load left it.
clear_nothing(container) == container

\* dict.clear() and list.clear(): the same object, emptied in place.
clear(container) == <<>>

\* ------------------------------------------------------- CharacterManager
\* A load that lets a later record with a registered id through.
cm_is_duplicate_never(char_id, processed) == FALSE

\* `if char_obj.id in processed_ids`
cm_is_duplicate(char_id, processed) == char_id \in processed

\* `self.characters[char_obj.id] = char_obj`
cm_register(chars, char_id, obj) == DictSet(chars, char_id, obj)

\* A load that keeps the first designated player.
cm_set_player_first(player, c) ==
    IF c.is_player /\ player = None THEN c.id ELSE player

\* Lines 82-88: the player id after a character was registered.
cm_set_player(player, c) == IF c.is_player THEN c.id ELSE player

\* A check that forgets that an empty registry is no error.
cm_no_player_any(chars, player) == player = None

\* `if self.characters and self.player_character_id is None`
cm_no_player(chars, player) == chars # <<>> /\ player = None

\* Lines 38-59: reset, directory check, glob, for a directory that exists
\* or not (d) and holds the files f.
CM_Begin(d, f) ==
    /\ characters' = clear(characters)
    /\ player_character_id' = None
    /\ heap' = NoHeap(f)
    /\ loaded_character_objects' = <<>>
    /\ processed_ids' = {}
    /\ idx' = 1
    /\ IF ~d
       THEN /\ loading_errors' = clear(loading_errors)
                    \o <<Plain("Characters directory not found")>>
            /\ loading_log' = clear(loading_log)
                    \o <<Plain("Starting character load from directory"),
                         ErrorLogCopy(Plain("Characters directory not found"))>>
            /\ ret' = "False" /\ pc' = "done"
       ELSE IF f = <<>>
       THEN /\ loading_errors' = clear(loading_errors)
            /\ loading_log' = clear(loading_log)
                    \o <<Plain("Starting character load from directory"),
                         Plain("WARN: No character YAML files found")>>
            /\ ret' = "True" /\ pc' = "done"
       ELSE /\ loading_errors' = clear(loading_errors)
            /\ loading_log' = clear(loading_log)
                    \o <<Plain("Starting character load from directory"),
                         CountMsg("Found potential character files", Len(f))>>
            /\ ret' = "none" /\ pc' = "parse"
    /\ UNCHANGED <<loaded_chars_count, initial_load_complete>>

\* load_and_link_characters is called on the loader.
CM_Start ==
    /\ impl = "CharacterManager" /\ pc = "start"
    /\ CM_Begin(dir_ok, files)
    /\ UNCHANGED <<inputs, first>>

\* Lines 63-70: one iteration of the loop that parses the files.
CM_Parse ==
    /\ impl = "CharacterManager" /\ pc = "parse"
    /\ LET r == load_from_yaml_file(files[idx])
           e == Msg("Failed to load or parse character file", "", "", idx,
                    r.exc, r.field, 0)
           loaded == IF r.ok THEN Append(loaded_character_objects, idx)
                     ELSE loaded_character_objects
       IN  /\ heap' = IF r.ok THEN [heap EXCEPT ![idx] = r.char] ELSE heap
           /\ loaded_character_objects' = loaded
           /\ loading_errors' = IF r.ok THEN loading_errors
                                ELSE Append(loading_errors, e)
           /\ loading_log' = IF r.ok THEN loading_log
                             ELSE Append(loading_log, ErrorLogCopy(e))
           /\ IF idx < Len(files)
              THEN idx' = idx + 1 /\ pc' = "parse"
              ELSE idx' = 1 /\ pc' = IF loaded = <<>> THEN "check" ELSE "process"
    /\ UNCHANGED <<inputs, ret, characters, player_character_id, processed_ids,
                   loaded_chars_count, initial_load_complete, first>>

\* Lines 74-88: one iteration of the loop over the parsed objects.
CM_Process ==
    /\ impl = "CharacterManager" /\ pc = "process"
    /\ LET obj == loaded_character_objects[idx]
           c == heap[obj]
           dup == cm_is_duplicate(c.id, processed_ids)
           multi == ~dup /\ c.is_player /\ player_character_id # None
           errs == IF dup THEN <<IdMsg("Duplicate character ID", c.id, "")>>
                   ELSE IF multi
                   THEN <<IdMsg("Multiple player characters defined",
                                player_character_id, c.id)>>
                   ELSE <<>>
       IN  /\ characters' = IF dup THEN characters
                            ELSE cm_register(characters, c.id, obj)
           /\ processed_ids' = IF dup THEN processed_ids
                               ELSE processed_ids \cup {c.id}
           /\ player_character_id' = IF dup THEN player_character_id
                                     ELSE cm_set_player(player_character_id, c)
           /\ loading_errors' = loading_errors \o errs
           /\ loading_log' = loading_log \o ErrorLogCopies(errs)
    /\ IF idx < Len(loaded_character_objects)
       THEN idx' = idx + 1 /\ pc' = "process"
       ELSE idx' = 1 /\ pc' = "check"
    /\ UNCHANGED <<inputs, ret, heap, loaded_character_objects,
                   loaded_chars_count, initial_load_complete, first>>

\* Lines 90-96, and lines 116-119 of _link_relationships_internal.
CM_Check ==
    /\ impl = "CharacterManager" /\ pc = "check"
    /\ LET errs == IF cm_no_player(characters, player_character_id)
                   THEN <<Plain("No player character was designated")>>
                   ELSE <<>>
       IN  /\ loading_errors' = loading_errors \o errs
           /\ loading_log' =
                 loading_log
                 \o <<CountMsg("Successfully parsed unique characters",
                               Len(characters))>>
                 \o ErrorLogCopies(errs)
                 \o <<Plain("Linking character relationships...")>>
                 \o (IF characters = <<>>
                     THEN <<Plain("No characters to link")>> ELSE <<>>)
    /\ idx' = 1
    /\ pc' = IF characters = <<>> THEN "finish" ELSE "link"
    /\ UNCHANGED <<inputs, ret, heap, characters, player_character_id,
                   loaded_character_objects, processed_ids, loaded_chars_count,
                   initial_load_complete, first>>

CM_WarnTexts == <<"WARN: spouse ID not found in loaded characters",
                  "WARN: parent ID not found", "WARN: child ID not found",
                  "WARN: sibling ID not found">>

\* Lines 121-166: one iteration of the loop over self.characters.items().
\* The AttributeError of a non-mapping `relationships` leaves the load.
CM_LinkChar ==
    /\ impl = "CharacterManager" /\ pc = "link"
    /\ LET char_id == characters[idx][1]
           obj == characters[idx][2]
       IN  IF LinkRaises(heap[obj])
           THEN /\ pc' = "raised"
                /\ UNCHANGED <<heap, loading_log, idx>>
           ELSE /\ heap' = [heap EXCEPT ![obj] = LinkCharacter(characters, @)]
                /\ loading_log' = loading_log
                       \o LinkWarnings(characters, char_id, heap[obj], CM_WarnTexts)
                /\ IF idx < Len(characters)
                   THEN idx' = idx + 1 /\ pc' = "link"
                   ELSE idx' = 1 /\ pc' = "finish"
    /\ UNCHANGED <<inputs, ret, characters, player_character_id, loading_errors,
                   loaded_character_objects, processed_ids, loaded_chars_count,
                   initial_load_complete, first>>

\* Line 168 (reached only when there were characters) and lines 101-108.
CM_Finish ==
    /\ impl = "CharacterManager" /\ pc = "finish"
    /\ loading_log' =
          loading_log
          \o (IF characters # <<>>
              THEN <<Plain("Character relationship linking attempt complete")>>
              ELSE <<>>)
          \o (IF loading_errors # <<>>
              THEN <<CountMsg("Character loading and linking completed with issues",
                              Len(loading_errors))>>
              ELSE <<Plain("All characters loaded and linked successfully")>>)
    /\ ret' = "True" /\ pc' = "done"
    /\ UNCHANGED <<inputs, heap, characters, player_character_id, loading_errors,
                   loaded_character_objects, processed_ids, idx, loaded_chars_count,
                   initial_load_complete, first>>

\* --------------------------------------------------------------- GameState
\* A load that lets a later record replace the registered one silently.
gs_is_duplicate_never(char_id, chars) == FALSE

\* `if char_obj.id in self.characters`
gs_is_duplicate(char_id, chars) == DictHas(chars, char_id)

\* `self.characters[char_obj.id] = char_obj`
gs_register(chars, char_id, obj) == DictSet(chars, char_id, obj)

\* A load that takes every registered character for the player.
gs_set_player_always(player, c) == c.id

\* Lines 85-91: the player id after a character was registered.
gs_set_player(player, c) == IF c.is_player THEN c.id ELSE player

\* A check that asks for a player of an empty registry too.
gs_no_player_any(chars, player) == player = None

\* `if self.player_character_id is None and self.characters`
gs_no_player(chars, player) == player = None /\ chars # <<>>

\* Lines 43-68: reset, directory check, glob, for a directory that exists
\* or not (d) and holds the files f.  An empty directory only logs a warning
\* and goes on.
GS_Begin(d, f) ==
    /\ characters' = clear(characters)
    /\ player_character_id' = None
    /\ initial_load_complete' = FALSE
    /\ heap' = NoHeap(f)
    /\ loaded_chars_count' = 0
    /\ idx' = 1
    /\ IF ~d
       THEN /\ loading_errors' = clear(loading_errors)
                    \o <<Plain("ERROR: Characters directory not found")>>
            /\ loading_log' = clear(loading_log)
                    \o <<Plain("Starting character load from"),
                         Plain("ERROR: Characters directory not found")>>
            /\ ret' = "False" /\ pc' = "done"
       ELSE /\ loading_errors' = clear(loading_errors)
            /\ loading_log' =
                  clear(loading_log)
                  \o <<Plain("Starting character load from")>>
                  \o (IF f = <<>>
                      THEN <<Plain("WARN: No character YAML files found")>>
                      ELSE <<>>)
            /\ ret' = "none"
            /\ pc' = IF f = <<>> THEN "check" ELSE "loadfile"
    /\ UNCHANGED <<loaded_character_objects, processed_ids>>

\* load_all_characters_from_files is called on the loader.
GS_Start ==
    /\ impl = "GameState" /\ pc = "start"
    /\ GS_Begin(dir_ok, files)
    /\ UNCHANGED <<inputs, first>>

\* Lines 72-96: one iteration of the loop over the files.
GS_LoadFile ==
    /\ impl = "GameState" /\ pc = "loadfile"
    /\ LET r == load_from_yaml_file(files[idx])
           c == r.char
           dup == r.ok /\ gs_is_duplicate(c.id, characters)
           added == r.ok /\ ~dup
           multi == added /\ c.is_player /\ player_character_id # None
           errs == IF ~r.ok
                   THEN <<Msg("ERROR: Failed to load character from", "", "", idx,
                              r.exc, r.field, 0)>>
                   ELSE IF dup
                   THEN <<Msg("ERROR: Duplicate character ID", c.id, "", idx,
                              "", "", 0)>>
                   ELSE IF multi
                   THEN <<IdMsg("ERROR: Multiple player characters defined",
                                player_character_id, c.id)>>
                   ELSE <<>>
       IN  /\ heap' = IF r.ok THEN [heap EXCEPT ![idx] = c] ELSE heap
           /\ characters' = IF added THEN gs_register(characters, c.id, idx)
                            ELSE characters
           /\ player_character_id' = IF added
                                     THEN gs_set_player(player_character_id, c)
                                     ELSE player_character_id
           /\ loaded_chars_count' = IF added THEN loaded_chars_count + 1
                                    ELSE loaded_chars_count
           /\ loading_errors' = loading_errors \o errs
           /\ loading_log' = loading_log
                  \o <<Msg("Loading character from", "", "", idx, "", "", 0)>>
                  \o errs
    /\ IF idx < Len(files)
       THEN idx' = idx + 1 /\ pc' = "loadfile"
       ELSE idx' = 1 /\ pc' = "check"
    /\ UNCHANGED <<inputs, ret, loaded_character_objects, processed_ids,
                   initial_load_complete, first>>

\* Lines 98-114, and lines 124-127 of _link_character_relationships: the
\* no-player check, then linking only when no error was recorded.
GS_Check ==
    /\ impl = "GameState" /\ pc = "check"
    /\ LET errs == IF gs_no_player(characters, player_character_id)
                   THEN <<Plain("ERROR: No player character defined")>>
                   ELSE <<>>
           all == loading_errors \o errs
       IN  /\ loading_errors' = all
           /\ IF all = <<>>
              THEN /\ loading_log' =
                        loading_log
                        \o <<CountMsg("Successfully loaded characters",
                                      loaded_chars_count),
                             Plain("Linking character relationships...")>>
                        \o (IF characters = <<>>
                            THEN <<Plain("No characters to link")>> ELSE <<>>)
                   /\ IF characters = <<>>
                      THEN /\ initial_load_complete' = TRUE
                           /\ ret' = "True" /\ pc' = "done"
                      ELSE /\ initial_load_complete' = initial_load_complete
                           /\ ret' = ret /\ pc' = "link"
              ELSE /\ loading_log' =
                        loading_log \o errs
                        \o <<CountMsg("Character loading finished with errors",
                                      Len(all))>>
                   /\ initial_load_complete' = initial_load_complete
                   /\ ret' = "False" /\ pc' = "done"
    /\ idx' = 1
    /\ UNCHANGED <<inputs, heap, characters, player_character_id,
                   loaded_character_objects, processed_ids, loaded_chars_count,
                   first>>

GS_WarnLogTexts == <<"WARN: Spouse ID for character not found",
                     "WARN: Parent ID for character not found",
                     "WARN: Child ID for character not found",
                     "WARN: Sibling ID for character not found">>
GS_WarnErrorTexts == <<"Linking Warn: Spouse ID not found",
                       "Linking Warn: Parent ID not found",
                       "Linking Warn: Child ID not found",
                       "Linking Warn: Sibling ID not found">>

\* Lines 129-175: one iteration of the loop over self.characters.items().
\* Each miss is logged and also appended to loading_errors.
GS_LinkChar ==
    /\ impl = "GameState" /\ pc = "link"
    /\ LET char_id == characters[idx][1]
           obj == characters[idx][2]
       IN  IF LinkRaises(heap[obj])
           THEN /\ pc' = "raised"
                /\ UNCHANGED <<heap, loading_log, loading_errors, idx>>
           ELSE /\ heap' = [heap EXCEPT ![obj] = LinkCharacter(characters, @)]
                /\ loading_log' = loading_log
                       \o LinkWarnings(characters, char_id, heap[obj], GS_WarnLogTexts)
                /\ loading_errors' = loading_errors
                       \o LinkWarnings(characters, char_id, heap[obj], GS_WarnErrorTexts)
                /\ IF idx < Len(characters)
                   THEN idx' = idx + 1 /\ pc' = "link"
                   ELSE idx' = 1 /\ pc' = "finish"
    /\ UNCHANGED <<inputs, ret, characters, player_character_id,
                   loaded_character_objects, processed_ids, loaded_chars_count,
                   initial_load_complete, first>>

\* Line 177 and lines 108-109.
GS_Finish ==
    /\ impl = "GameState" /\ pc = "finish"
    /\ loading_log' = Append(loading_log,
                             Plain("Character relationship linking complete"))
    /\ initial_load_complete' = TRUE
    /\ ret' = "True" /\ pc' = "done"
    /\ UNCHANGED <<inputs, heap, characters, player_character_id, loading_errors,
                   loaded_character_objects, processed_ids, idx, loaded_chars_count,
                   first>>

\* GameState.get_player_character: the player's object, or None when the
\* player id is None or empty.
get_player_character ==
    IF TruthyStr(player_character_id)
    THEN DictGet(characters, player_character_id)
    ELSE NoObj

\* ------------------------------------------------------------------ inputs
Impls == {"CharacterManager", "GameState"}

\* All batches of at most n files over the records of R.
Batches(R, n) == UNION {[1..k -> R] : k \in 0..n}

\* Ids of records; "G" is referred to and never an id of a record.
Ids == {"A", "B", ""}

\* Records of Spec: every way a file is accepted or rejected, players and
\* not, an empty id, and two records that carry relationship data.
Records ==
    {NotADict, Unparsable, NoSuchFile, IsADirectory,
     Lacking({"id"}), Lacking({"bio"})}
    \cup {Valid(id, isp, NoRel) : id \in Ids, isp \in BOOLEAN}
    \cup {Valid("B", FALSE, BadRel),
          Valid("B", FALSE, Rel("A", <<"G">>, <<>>, <<"A", "A">>))}

\* A loader as its constructor leaves it, about to load.
Fresh(batches) ==
    /\ impl \in Impls
    /\ dir_ok \in BOOLEAN
    /\ files \in IF dir_ok THEN batches ELSE {<<>>}
    /\ pc = "start"
    /\ ret = "none"
    /\ heap = NoHeap(files)
    /\ characters = <<>>
    /\ player_character_id = None
    /\ loading_log = <<>>
    /\ loading_errors = <<>>
    /\ loaded_character_objects = <<>>
    /\ processed_ids = {}
    /\ idx = 1
    /\ loaded_chars_count = 0
    /\ initial_load_complete = FALSE
    /\ first = <<>>

Init == Fresh(Batches(Records, MaxFiles))

\* Records of SpecFields: a mapping with every subset of the required
\* fields, a file that is no mapping, and one player.
FieldRecords ==
    {Lacking(missing) : missing \in SUBSET FieldSet}
    \cup {NotADict, Valid("A", TRUE, NoRel)}

InitFields == Fresh(Batches(FieldRecords, MaxFieldFiles))

\* Records of SpecLink: ids A (the player) and B, each with no relationship
\* data, data that is no mapping, one slot filled (a spouse id; a list with a
\* dangling id, with two ids, with a repeated and a dangling id), or all four.
LinkLists == {<<"G">>, <<"B", "A">>, <<"A", "G", "A">>}
LinkRels ==
    {NoRel, BadRel, Rel("B", <<"A">>, <<"G">>, <<"B", "B">>)}
    \cup {Rel(sp, <<>>, <<>>, <<>>) : sp \in {"A", "B", "G"}}
    \cup {Rel(None, l, <<>>, <<>>) : l \in LinkLists}
    \cup {Rel(None, <<>>, l, <<>>) : l \in LinkLists}
    \cup {Rel(None, <<>>, <<>>, l) : l \in LinkLists}
LinkRecords == {Valid(id, id = "A", rel) : id \in {"A", "B"}, rel \in LinkRels}

InitLink == Fresh(Batches(LinkRecords, MaxLinkFiles))

\* Records of SpecReload: a player, a record that is rejected, a player with
\* relationship data and a record whose relationship data makes linking raise.
ReloadRecords ==
    {Valid("A", TRUE, NoRel), Lacking({"name"}),
     Valid("B", TRUE, Rel("A", <<"G">>, <<>>, <<>>)), Valid("B", FALSE, BadRel)}

InitReload == Fresh(Batches(ReloadRecords, MaxReloadFiles))

\* What a load hands out: the loader's fields, the objects and the outcome.
Result ==
    [pc |-> pc, ret |-> ret, characters |-> characters, heap |-> heap,
     player_character_id |-> player_character_id, loading_log |-> loading_log,
     loading_errors |-> loading_errors,
     initial_load_complete |-> initial_load_complete]

\* What a consumer sees through the references it kept to the loader's
\* registry, log and errors: __init__ binds the three attributes once and no
\* load rebinds them, so the references are to the objects the loader uses.
KeptReferences ==
    [characters |-> characters, loading_log |-> loading_log,
     loading_errors |-> loading_errors]

\* `first` once the caller goes on using the loader after a load: it keeps
\* what the loader's first load was given and handed out, and whether a load
\* of another batch has run since.
Handed ==
    IF first = <<>>
    THEN (IF pc \in {"done", "raised"}
          THEN <<[dir_ok |-> dir_ok, files |-> files, result |-> Result,
                  kept |-> KeptReferences, other |-> FALSE]>>
          ELSE first)
    ELSE IF dir_ok # first[1].dir_ok \/ files # first[1].files
    THEN <<[first[1] EXCEPT !.other = TRUE]>>
    ELSE first

\* Messages a caller passes to add_log.
CallerMessages == {"a message of the caller"}

\* No load is running: the caller may call the loader's public methods.
\* pc is "start" before the first load, "done" or "raised" right after a
\* load, and "used" once the caller has changed the log since.
Idle == pc \in {"start", "done", "raised", "used"}

\* GameState.add_log, called by the caller between loads.
add_log(message) ==
    /\ impl = "GameState" /\ Idle
    /\ Cardinality({n \in 1..Len(loading_log) : loading_log[n].text = message})
          < MaxAddLog
    /\ loading_log' = Append(loading_log, Plain(message))
    /\ first' = Handed
    /\ pc' = IF pc = "start" THEN "start" ELSE "used"
    /\ UNCHANGED <<inputs, ret, heap, characters, player_character_id,
                   loading_errors, loaded_character_objects, processed_ids, idx,
                   loaded_chars_count, initial_load_complete>>

\* GameState.clear_log, called by the caller between loads.
clear_log ==
    /\ impl = "GameState" /\ Idle
    /\ loading_log' = clear(loading_log)
    /\ first' = Handed
    /\ pc' = IF pc = "start" THEN "start" ELSE "used"
    /\ UNCHANGED <<inputs, ret, heap, characters, player_character_id,
                   loading_errors, loaded_character_objects, processed_ids, idx,
                   loaded_chars_count, initial_load_complete>>

\* The same loader is called again, after a load returned or raised, on a
\* directory of the caller's choice.
Reload ==
    /\ pc \in {"done", "raised", "used"}
    /\ first' = Handed
    /\ \E d \in BOOLEAN :
         \E f \in IF d THEN Batches(ReloadRecords, MaxReloadFiles) ELSE {<<>>} :
            /\ dir_ok' = d /\ files' = f /\ impl' = impl
            /\ IF impl = "CharacterManager" THEN CM_Begin(d, f) ELSE GS_Begin(d, f)

Next ==
    \/ CM_Start \/ CM_Parse \/ CM_Process \/ CM_Check \/ CM_LinkChar \/ CM_Finish
    \/ GS_Start \/ GS_LoadFile \/ GS_Check \/ GS_LinkChar \/ GS_Finish
    \/ (\E message \in CallerMessages : add_log(message)) \/ clear_log

NextReload == Next \/ Reload

Spec == Init /\ [][Next]_vars
SpecFields == InitFields /\ [][Next]_vars
SpecLink == InitLink /\ [][Next]_vars
SpecReload == InitReload /\ [][NextReload]_vars

\* ------------------------------------------------------------ the claims
\* What the claims say, stated over the batch and the loader's fields.

Range(seq) == {seq[i] : i \in 1..Len(seq)}
Indices == 1..Len(files)

\* The record of file i has all five required fields.
Complete(i) == files[i].kind = "dict" /\ FieldSet \subseteq files[i].keys
\* File i is the first complete record of the batch with its id.
FirstOfId(i) ==
    /\ Complete(i)
    /\ \A j \in 1..(i - 1) : Complete(j) => files[j].id # files[i].id
\* File i is a complete record whose id an earlier complete record has.
LaterOfId(i) == Complete(i) /\ ~FirstOfId(i)

\* The elements of a set of numbers in increasing order.
Ascending(S) ==
    CHOOSE q \in [1..Cardinality(S) -> S] :
        \A a, b \in 1..Cardinality(S) : a < b => q[a] < q[b]

\* The load returned after it went through the batch.
Returned == pc = "done" /\ dir_ok

IsDuplicateError(m) ==
    m.text \in {"Duplicate character ID", "ERROR: Duplicate character ID"}
IsMultiplePlayersError(m) ==
    m.text \in {"Multiple player characters defined",
                "ERROR: Multiple player characters defined"}
IsNoPlayerError(m) ==
    m.text \in {"No player character was designated",
                "ERROR: No player character defined"}
IsLoadFailure(m) ==
    m.text \in {"Failed to load or parse character file",
                "ERROR: Failed to load character from"}

\* C1: the registry entry of an id is the entity built from the first
\* successfully parsed record with that id, at every point of the load and
\* unaltered; after the load every such id has its entry; no key occurs twice.
C1_FirstRecordWins ==
    /\ \A n \in 1..Len(characters) :
          LET k == characters[n][1]
              o == characters[n][2]
          IN  /\ o \in Indices /\ FirstOfId(o) /\ files[o].id = k
              /\ heap[o].alive /\ heap[o].id = files[o].id
              /\ heap[o].is_player = files[o].is_player
              /\ heap[o].relationships_data = files[o].relationships
    /\ \A n, m \in 1..Len(characters) :
          characters[n][1] = characters[m][1] => n = m
    /\ Returned =>
          \A i \in Indices : FirstOfId(i) => <<files[i].id, i>> \in Range(characters)

\* Two records with the same id that differ were loaded, and the registry
\* holds the first.
C1_Witness ==
    /\ Returned
    /\ \E i, j \in Indices :
          /\ FirstOfId(i) /\ LaterOfId(j) /\ files[i].id = files[j].id
          /\ files[i].is_player # files[j].is_player
          /\ <<files[i].id, i>> \in Range(characters)

\* C2: each later record that reuses a registered id adds exactly one
\* duplicate-id error, and that error names the record's source.
C2_DuplicateErrorNamesSource ==
    Returned =>
      /\ \A i \in Indices :
            Cardinality({n \in 1..Len(loading_errors) :
                           /\ IsDuplicateError(loading_errors[n])
                           /\ loading_errors[n].file = i})
              = IF LaterOfId(i) THEN 1 ELSE 0
      /\ Cardinality({n \in 1..Len(loading_errors) :
                         IsDuplicateError(loading_errors[n])})
            = Cardinality({i \in Indices : LaterOfId(i)})

\* The files of the records that designate a player and are registered.
Players == Ascending({i \in Indices : FirstOfId(i) /\ files[i].is_player})
MultiplePlayersErrors == SelectSeq(loading_errors, IsMultiplePlayersError)

\* C3: after the load the player id is the id of the last registered record
\* that designates a player; each designation after the first adds one
\* multiple-players error with the old id and then the new one; a record
\* dropped as a duplicate adds none and leaves the player id alone.
C3_LastPlayerWins ==
    Returned =>
      /\ player_character_id =
            IF Players = <<>> THEN None ELSE files[Players[Len(Players)]].id
      /\ Len(MultiplePlayersErrors) =
            IF Players = <<>> THEN 0 ELSE Len(Players) - 1
      /\ \A n \in 1..Len(MultiplePlayersErrors) :
            /\ MultiplePlayersErrors[n].id = files[Players[n]].id
            /\ MultiplePlayersErrors[n].id2 = files[Players[n + 1]].id

\* Two registered records designate a player and a dropped duplicate
\* designates one too.
C3_Witness ==
    /\ Returned
    /\ Len(Players) >= 2
    /\ \E i \in Indices : LaterOfId(i) /\ files[i].is_player /\ i > Players[1]

\* C4: after the load there is one no-player error when the registry is not
\* empty and no player id is set, and none otherwise; an empty registry,
\* also one whose records were all rejected, is no error.
C4_NoPlayerError ==
    pc = "done" =>
      Cardinality({n \in 1..Len(loading_errors) :
                     IsNoPlayerError(loading_errors[n])})
        = IF characters # <<>> /\ player_character_id = None THEN 1 ELSE 0

\* A registry with an entry and no player, and the error.
C4_Witness ==
    /\ pc = "done" /\ characters # <<>> /\ player_character_id = None
    /\ \E n \in 1..Len(loading_errors) : IsNoPlayerError(loading_errors[n])
    /\ \E i \in Indices : ~Complete(i)

\* C5: a load of a batch by a loader that has loaded before, the same batch
\* or others, ends as the first load of that batch by the fresh loader
\* ended: same registry, player id, log, errors and outcome.
C5_ReloadSameResult ==
    (/\ pc \in {"done", "raised"} /\ first # <<>>
     /\ dir_ok = first[1].dir_ok /\ files = first[1].files)
    => Result = first[1].result

\* The first batch was loaded again after another batch, and it leaves a
\* registry and errors.
C5_Witness ==
    /\ pc = "done" /\ first # <<>> /\ first[1].other
    /\ dir_ok = first[1].dir_ok /\ files = first[1].files
    /\ characters # <<>> /\ loading_errors # <<>>

\* C6: the registry, log and errors that the first load handed out, as a
\* consumer sees them through the references it kept, stay as they were
\* handed out while the loader loads again.
C6_HandedOutResultUnchanged ==
    (first # <<>> /\ pc # "used") => KeptReferences = first[1].kept

\* The load-failure errors recorded for file i.
LoadFailures(i) ==
    {n \in 1..Len(loading_errors) :
        IsLoadFailure(loading_errors[n]) /\ loading_errors[n].file = i}

\* C7: a load returns whatever the batch holds, and a record that fails
\* construction adds one error while the records after it are processed.
C7_LoadIsTotal ==
    /\ pc # "raised"
    /\ Returned =>
          \A i \in Indices :
              Cardinality(LoadFailures(i)) = IF Complete(i) THEN 0 ELSE 1

\* The place of a required field in the order id, name, age, gender, bio.
FieldRank(f) ==
    CASE f = "id" -> 1 [] f = "name" -> 2 [] f = "age" -> 3
      [] f = "gender" -> 4 [] f = "bio" -> 5

\* C8: a mapping becomes a Character exactly when it holds id, name, age,
\* gender and bio; otherwise one error names the first field it lacks in
\* that order, the record is not registered, and the records after it are
\* still processed.
C8_ConstructionValidation ==
    Returned =>
      \A i \in Indices :
          files[i].kind = "dict" =>
            LET missing == FieldSet \ files[i].keys
            IN  /\ heap[i].alive <=> missing = {}
                /\ missing = {} => LoadFailures(i) = {}
                /\ missing # {} =>
                      /\ Cardinality(LoadFailures(i)) = 1
                      /\ \A n \in LoadFailures(i) :
                            /\ loading_errors[n].exc = "Missing required field"
                            /\ loading_errors[n].field \in missing
                            /\ \A g \in missing :
                                  FieldRank(loading_errors[n].field) <= FieldRank(g)
                      /\ \A n \in 1..Len(characters) : characters[n][2] # i

\* A record that lacks name and bio was rejected for name, and the record
\* after it was built and registered.
C8_Witness ==
    /\ Returned /\ Len(files) = 2
    /\ files[1].kind = "dict" /\ FieldSet \ files[1].keys = {"name", "bio"}
    /\ \E n \in LoadFailures(1) : loading_errors[n].field = "name"
    /\ heap[2].alive /\ \E n \in 1..Len(characters) : characters[n][2] = 2

\* C9: no registry entry has the empty id.
C9_RegistryIdsNonEmpty ==
    \A n \in 1..Len(characters) :
        characters[n][1] # "" /\ heap[characters[n][2]].id # ""

\* The objects the registry holds.
Entities == {characters[n][2] : n \in 1..Len(characters)}
\* Link l is the registry's entry for one of the ids.
LinkOf(l, ids) ==
    /\ l \in Entities
    /\ heap[l].id \in ids
    /\ <<heap[l].id, l>> \in Range(characters)
\* The links of a slot are registry entries for ids of the slot, and no more
\* of them than the slot has ids with a registry entry.
SlotLinked(objs, ids) ==
    /\ \A l \in Range(objs) : LinkOf(l, Range(ids))
    /\ Len(objs) <= Cardinality({p \in 1..Len(ids) : ids[p] \in DictKeys(characters)})

\* C10: after the load every spouse link and every element of the parents,
\* children and siblings of a registry entity is the registry's entry for
\* an id the entity names in that slot, and an id without a registry entry
\* gives no link.
C10_LinksAreRegistryEntities ==
    pc = "done" =>
      \A o \in Entities :
          LET c == heap[o]
              rd == c.relationships_data
          IN  /\ c.spouse_obj # NoObj => LinkOf(c.spouse_obj, {rd.spouse_id})
              /\ rd.spouse_id \notin DictKeys(characters) => c.spouse_obj = NoObj
              /\ SlotLinked(c.parent_objs, rd.parent_ids)
              /\ SlotLinked(c.children_objs, rd.children_ids)
              /\ SlotLinked(c.sibling_objs, rd.sibling_ids)

\* An entity with a spouse link, a parent link, two sibling links and a
\* child id that names no record, beside an entity that was dropped or not.
C10_Witness ==
    /\ pc = "done"
    /\ \E o \in Entities :
          /\ heap[o].spouse_obj # NoObj
          /\ heap[o].parent_objs # <<>> /\ heap[o].parent_objs[1] # o
          /\ heap[o].relationships_data.children_ids # <<>>
          /\ heap[o].children_objs = <<>>
          /\ Len(heap[o].sibling_objs) = 2

\* Resolution ran over the registry and the load returned: CharacterManager
\* resolves in every load that gets past the directory check, GameState only
\* in a load that recorded no error before (game_state.py lines 104-109).
Resolved == pc = "done" /\ (impl = "CharacterManager" \/ ret = "True")

\* The registry's entity for a key.
EntityOf(k) == CHOOSE o \in Entities : <<k, o>> \in Range(characters)
\* The positions of an id list whose id is a registry key, in source order.
Found(ids) == Ascending({p \in 1..Len(ids) : ids[p] \in DictKeys(characters)})
\* The resolved sequence has one entry for each position of the id list
\* whose id is a registry key, in source order, and the entry is the
\* registry's entity for that id.
SlotResolved(objs, ids) ==
    /\ Len(objs) = Len(Found(ids))
    /\ \A k \in 1..Len(objs) : objs[k] = EntityOf(ids[Found(ids)[k]])

\* C11: after resolution each of parents, children and siblings of a registry
\* entity is its raw id list with the ids that are no registry key removed
\* and each other id replaced by its registry entity, in source order; an id
\* the list repeats is linked as often as the list has it.
C11_ListsResolvedInOrder ==
    Resolved =>
      \A o \in Entities :
          LET c == heap[o]
              rd == c.relationships_data
          IN  /\ SlotResolved(c.parent_objs, rd.parent_ids)
              /\ SlotResolved(c.children_objs, rd.children_ids)
              /\ SlotResolved(c.sibling_objs, rd.sibling_ids)

\* An entity whose list names another entity twice around a dangling id is
\* linked to that entity twice.
C11_Witness ==
    /\ Resolved
    /\ \E o \in Entities :
          \E slot \in {"parent", "children", "sibling"} :
             LET ids == IF slot = "parent" THEN heap[o].relationships_data.parent_ids
                        ELSE IF slot = "children"
                        THEN heap[o].relationships_data.children_ids
                        ELSE heap[o].relationships_data.sibling_ids
                 objs == IF slot = "parent" THEN heap[o].parent_objs
                         ELSE IF slot = "children" THEN heap[o].children_objs
                         ELSE heap[o].sibling_objs
             IN  /\ Len(ids) = 3 /\ ids[1] = ids[3] /\ ids[2] \notin DictKeys(characters)
                 /\ Len(objs) = 2 /\ objs[1] = objs[2] /\ objs[1] # o

\* The record gave a spouse id: a string that is not empty.
SpousePresent(rd) == rd.spouse_id # None /\ rd.spouse_id # ""
\* The record of file i is valid and its relationship data is a spouse id
\* and nothing else.
SpouseOnly(i) ==
    /\ Complete(i)
    /\ files[i].relationships.kind = "map"
    /\ SpousePresent(files[i].relationships)
    /\ files[i].relationships.parent_ids = <<>>
    /\ files[i].relationships.children_ids = <<>>
    /\ files[i].relationships.sibling_ids = <<>>
\* The batch is two valid records with different ids that name each other
\* as spouse, one of them the player.
MutualSpouses ==
    /\ dir_ok /\ Len(files) = 2
    /\ SpouseOnly(1) /\ SpouseOnly(2)
    /\ files[1].id # files[2].id
    /\ files[1].relationships.spouse_id = files[2].id
    /\ files[2].relationships.spouse_id = files[1].id
    /\ files[1].is_player # files[2].is_player

\* C12: after resolution the spouse link of a registry entity is the
\* registry's entity for its spouse id when it has one and the id is a
\* registry key, and absent otherwise; two records that name each other as
\* spouse end up linked to each other, with no error recorded.
C12_SpouseResolved ==
    pc = "done" =>
      /\ \A o \in Entities :
            LET rd == heap[o].relationships_data
                known == SpousePresent(rd) /\ rd.spouse_id \in DictKeys(characters)
            IN  /\ (Resolved /\ known) => heap[o].spouse_obj = EntityOf(rd.spouse_id)
                /\ ~known => heap[o].spouse_obj = NoObj
      /\ MutualSpouses =>
            /\ Resolved
            /\ heap[1].spouse_obj = 2 /\ heap[2].spouse_obj = 1
            /\ loading_errors = <<>>

\* The two records that name each other were loaded and are linked both
\* ways.
C12_Witness ==
    /\ pc = "done" /\ MutualSpouses
    /\ heap[1].spouse_obj = 2 /\ heap[2].spouse_obj = 1

\* The relationship ids of a character that are no registry key, in the
\* order spouse, parents, children, siblings.
DanglingIds(c) ==
    LET rd == c.relationships_data
        missing(ids) == SelectSeq(ids, LAMBDA k : k \notin DictKeys(characters))
    IN  (IF SpousePresent(rd) /\ rd.spouse_id \notin DictKeys(characters)
         THEN <<rd.spouse_id>> ELSE <<>>)
        \o missing(rd.parent_ids) \o missing(rd.children_ids)
        \o missing(rd.sibling_ids)

\* C13: resolving the relationship ids of an entity, dangling ones among
\* them, never fails the load and only appends to the log: the step does not
\* raise, it leaves `errors` and the registry as they were, and it appends
\* one log entry for each dangling id of the entity, naming the entity and
\* the id.  (Relationship data that is no mapping holds no ids to resolve.)
C13_ResolutionOnlyLogs ==
    [][(pc = "link" /\ heap[characters[idx][2]].relationships_data.kind # "bad") =>
          LET c == heap[characters[idx][2]]
              added == SubSeq(loading_log', Len(loading_log) + 1, Len(loading_log'))
          IN  /\ pc' # "raised"
              /\ loading_errors' = loading_errors
              /\ characters' = characters
              /\ Len(added) = Len(DanglingIds(c))
              /\ \A n \in 1..Len(added) :
                    /\ added[n].id = characters[idx][1]
                    /\ added[n].id2 = DanglingIds(c)[n]]_vars

\* C14: a load of a directory that holds no record file ends with an empty
\* registry, no player id and no error, also on a loader that loaded
\* records before.
C14_EmptyInput ==
    (pc = "done" /\ dir_ok /\ files = <<>>) =>
        /\ characters = <<>>
        /\ player_character_id = None
        /\ loading_errors = <<>>

\* The empty directory was loaded by a loader whose first load left a
\* registry with a player and errors.
C14_Witness ==
    /\ pc = "done" /\ dir_ok /\ files = <<>>
    /\ first # <<>>
    /\ first[1].result.characters # <<>>
    /\ first[1].result.player_character_id # None
    /\ first[1].result.loading_errors # <<>>
    /\ characters = <<>>

\* The entries of e occur in l, in the order they have in e.
RECURSIVE IsSubsequence(_, _)
IsSubsequence(e, l) ==
    IF e = <<>> THEN TRUE
    ELSE IF l = <<>> THEN FALSE
    ELSE IF Head(e) = Head(l) THEN IsSubsequence(Tail(e), Tail(l))
    ELSE IsSubsequence(e, Tail(l))

\* Sequence l starts with sequence k.
IsPrefix(k, l) == Len(k) <= Len(l) /\ SubSeq(l, 1, Len(k)) = k

\* C15: at every point of a load each entry of `errors` is an entry of the
\* log and the entries of `errors` occur in the log in the same order; a
\* step of the load only appends to the log.
C15_ErrorsSubsequenceOfLog ==
    /\ [](pc \notin {"start", "used"} => IsSubsequence(loading_errors, loading_log))
    /\ [][~Idle => IsPrefix(loading_log, loading_log')]_vars

\* C16: CharacterManager's load returns False when a critical error
\* occurred, which the directory not being found and no player being
\* designated are, and True when the load was successful.
C16_ManagerReturnValue ==
    (impl = "CharacterManager" /\ pc = "done") =>
        LET critical ==
              \/ ~dir_ok
              \/ \E n \in 1..Len(loading_errors) : IsNoPlayerError(loading_errors[n])
        IN  /\ critical => ret = "False"
            /\ loading_errors = <<>> => ret = "True"

\* C17: GameState's load returns True, and sets initial_load_complete, only
\* with loading_errors empty on return; with loading_errors not empty on
\* return it returned False and initial_load_complete is false.
C17_GameStateReturnValue ==
    (impl = "GameState" /\ pc = "done") =>
        /\ ret = IF loading_errors = <<>> THEN "True" ELSE "False"
        /\ initial_load_complete <=> ret = "True"

\* Some link slot of the object is set.
AnyLink(o) ==
    \/ heap[o].spouse_obj # NoObj
    \/ heap[o].parent_objs # <<>>
    \/ heap[o].children_objs # <<>>
    \/ heap[o].sibling_objs # <<>>
\* Every record of the batch has been parsed and every first record of an
\* id is in the registry.
BatchRegistered ==
    \A i \in Indices :
        /\ Complete(i) => heap[i].alive
        /\ FirstOfId(i) => <<files[i].id, i>> \in Range(characters)
\* The valid records of the batch have pairwise distinct ids.
DistinctIds ==
    \A i, j \in Indices :
        (Complete(i) /\ Complete(j) /\ files[i].id = files[j].id) => i = j
\* The file of the batch whose valid record has id k, wherever it stands in
\* the batch; NoObj when there is none.
FileOf(k) ==
    IF \E j \in Indices : Complete(j) /\ files[j].id = k
    THEN CHOOSE j \in Indices : Complete(j) /\ files[j].id = k
    ELSE NoObj
\* The files that the ids of a list name, in the order of the list.
FilesOf(ids) ==
    LET named == SelectSeq(ids, LAMBDA k : FileOf(k) # NoObj)
    IN  [n \in 1..Len(named) |-> FileOf(named[n])]

\* C18: no link is set, and no resolution step taken, before every record of
\* the batch is parsed and every non-duplicate entity is in the registry; so
\* for a batch of records with pairwise distinct ids a relationship id
\* resolves to the record of the batch with that id, be it earlier or later
\* in the batch than the record that names it.
C18_TwoPhaseLinking ==
    /\ (pc \in {"link", "finish"} \/ \E o \in Indices : AnyLink(o)) => BatchRegistered
    /\ (Resolved /\ DistinctIds) =>
          \A i \in Indices :
              Complete(i) =>
                LET rd == files[i].relationships
                IN  /\ heap[i].spouse_obj =
                          IF SpousePresent(rd) THEN FileOf(rd.spouse_id) ELSE NoObj
                    /\ heap[i].parent_objs = FilesOf(rd.parent_ids)
                    /\ heap[i].children_objs = FilesOf(rd.children_ids)
                    /\ heap[i].sibling_objs = FilesOf(rd.sibling_ids)

\* The first record of the batch is linked to the second, which it names in
\* a list, and the second to the first.
C18_Witness ==
    /\ Resolved /\ DistinctIds /\ Len(files) = 2
    /\ \E n \in 1..Len(heap[1].parent_objs \o heap[1].children_objs
                       \o heap[1].sibling_objs) :
          (heap[1].parent_objs \o heap[1].children_objs \o heap[1].sibling_objs)[n] = 2
    /\ heap[2].spouse_obj = 1

\* C19: in every load of a loader, the first or a later one, the player id is
\* absent or a key of the registry whose entity designates the player and
\* was built from the first valid record with that id, not from a rejected
\* record nor from one dropped as a duplicate; the player that
\* get_player_character hands out is absent or that entity.
C19_PlayerIsRegistered ==
    /\ player_character_id # None =>
          \E n \in 1..Len(characters) :
              LET o == characters[n][2]
              IN  /\ characters[n][1] = player_character_id
                  /\ heap[o].id = player_character_id
                  /\ heap[o].is_player
                  /\ FirstOfId(o) /\ files[o].is_player
    /\ get_player_character # NoObj =>
          /\ player_character_id # None
          /\ <<player_character_id, get_player_character>> \in Range(characters)
          /\ heap[get_player_character].is_player

\* A loader that loaded before has loaded a batch with a rejected record or
\* a dropped duplicate that designates the player, and the player id is set.
C19_Witness ==
    /\ pc = "done" /\ first # <<>>
    /\ player_character_id # None
    /\ get_player_character # NoObj
    /\ \E i \in Indices : ~FirstOfId(i)
    /\ \E i \in Indices : LaterOfId(i) /\ files[i].is_player

\* The errors recorded for a record that failed construction, and those
\* recorded for a record dropped as a duplicate.
LoadFailureErrors == {n \in 1..Len(loading_errors) : IsLoadFailure(loading_errors[n])}
DuplicateErrors == {n \in 1..Len(loading_errors) : IsDuplicateError(loading_errors[n])}

\* C20: after a load the number of records of the batch is the size of the
\* registry plus the number of construction-failure errors plus the number
\* of duplicate-id errors.
C20_EveryRecordAccounted ==
    Returned =>
        Len(files) = Len(characters)
                     + Cardinality(LoadFailureErrors)
                     + Cardinality(DuplicateErrors)

\* A batch of three was loaded: one record registered, one rejected and one
\* dropped as a duplicate.
C20_Witness ==
    /\ Returned /\ Len(files) = 3
    /\ Len(characters) = 1
    /\ Cardinality(LoadFailureErrors) = 1
    /\ Cardinality(DuplicateErrors) = 1

=============================================================================
